---- MODULE Spec2Model ----
(***************************************************************************)
(* BDF-Mobile: the stock dashboard page (stock_dashboard.js) and the tank  *)
(* gauge poller (tanker_weight_log.js), as state machines.                  *)
(*                                                                          *)
(* JavaScript numbers are modelled as exact fractions [num, den] in lowest  *)
(* terms; an absent (undefined / null) value is the empty sequence << >>    *)
(* and a present value v is << v >>.                                        *)
(***************************************************************************)
EXTENDS Integers, Sequences, FiniteSets, TLC

\* ------------------------------------------------------------------ bounds

\* remote calls the dashboard issues in one run (the page-load call included)
MaxCalls == 2
\* rows in one response of get_stock_data
MaxRows == 2
\* fetches the gauge poller issues in one run (the initial call included)
MaxFetches == 3
\* calls of updateTankGraphic with an arbitrary capacity (SpecFill)
MaxFills == 2

\* --------------------------------------------------------------- variables

VARIABLES
    controls,     \* dashboard: the five filter controls' values
    issued,       \* dashboard: frappe.call requests issued so far
    inflight,     \* dashboard: requests whose response has not arrived
    failed,       \* dashboard: ids of the requests that ended in an error
    container,    \* dashboard: content of #stock-cards-container
    tiles,        \* dashboard: #total-items, #critical-items, #healthy-items, #avg-days
    handled,      \* history: responses render_data has handled
    lastId,       \* history: id of the request whose response was handled last
    lastData,     \* history: the row list handled last
    fetched,      \* gauge: get_list fetches issued so far
    pending,      \* gauge: fetches not yet settled
    rejected,     \* gauge: ids of the fetches whose promise was rejected
    gauge,        \* gauge: << >> (as the page's markup left it) or << display >>
    resolved,     \* history: fetches resolved so far
    lastFetch,    \* history: << >> or << the fetch that resolved last >>
    lastRecords   \* history: the record list the last resolved fetch carried

dashVars == <<controls, issued, inflight, failed, container, tiles, handled, lastId, lastData>>
gaugeVars == <<fetched, pending, rejected, gauge, resolved, lastFetch, lastRecords>>
vars == <<controls, issued, inflight, failed, container, tiles, handled, lastId, lastData,
          fetched, pending, rejected, gauge, resolved, lastFetch, lastRecords>>

\* ------------------------------------------------------------- JS numbers

Abs(x) == IF x < 0 THEN -x ELSE x

RECURSIVE GCD(_, _)
GCD(a, b) == IF b = 0 THEN a ELSE GCD(b, a % b)

\* n / d, d # 0, in lowest terms with a positive denominator
Frac(n, d) ==
    LET g == GCD(Abs(n), Abs(d))
        s == IF d < 0 THEN -1 ELSE 1
    IN  [num |-> s * ((s * s * n) \div g), den |-> Abs(d) \div g]

FracAdd(x, y) == Frac(x.num * y.den + y.num * x.den, x.den * y.den)

FracDivInt(x, k) == Frac(x.num, x.den * k)

FracMulInt(x, k) == Frac(x.num * k, x.den)

FracLess(x, k) == x.num < k * x.den

FracGreater(x, k) == x.num > k * x.den

RECURSIVE IsPow2(_)
IsPow2(d) == IF d = 1 THEN TRUE ELSE IF d % 2 # 0 THEN FALSE ELSE IsPow2(d \div 2)

\* The number 0 as jQuery's .text(0) and a template literal show it: "0".
NumberZero == [kind |-> "number", neg |-> FALSE, tenths |-> 0]

\* Number.prototype.toFixed(1): the strings "<sign><tenths/10>" x can give.
\* The nearest tenth; "-" is kept for a negative x even when the digits are
\* 0.0.  A value exactly halfway between two tenths goes to the larger digit
\* when the double holds it exactly (exact operands, a power-of-two
\* denominator); otherwise the double lies on either side of the tie, and
\* both neighbours are outcomes.
toFixed1(x, exact) ==
    LET a == Abs(x.num)
        q == (10 * a) \div x.den
        r == (10 * a) % x.den
        digits == IF 2 * r < x.den THEN {q}
                  ELSE IF 2 * r > x.den THEN {q + 1}
                  ELSE IF exact /\ IsPow2(x.den) THEN {q + 1}
                  ELSE {q, q + 1}
    IN  {[kind |-> "fixed", neg |-> x.num < 0, tenths |-> t] : t \in digits}

\* ============================================================== dashboard

FilterFields == {"warehouse", "item_code", "item_group", "stock_status", "sort_order"}

\* The values a control can hold: a Link control is unset ("") or names a
\* document; the two Select controls hold one of their options.
FilterValues ==
    [warehouse |-> {"", "Stores"}, item_code |-> {"", "MILK"}, item_group |-> {"", "Dairy"},
     stock_status |-> {"All", "Critical", "Healthy"}, sort_order |-> {"asc", "desc"}]

DefaultControls ==
    [warehouse |-> "", item_code |-> "", item_group |-> "",
     stock_status |-> "All", sort_order |-> "asc"]

\* A row of a response, as far as render_data reads it.
Row(c, q, r, d) ==
    [item_code |-> c, actual_qty |-> q, reorder_level |-> r, custom_no_of_days |-> d]

\* The items of the run: actual_qty below, at and above reorder_level;
\* custom_no_of_days absent, zero, negative and positive.
Catalogue ==
    <<Row("I1", -2, 1, <<3>>), Row("I2", 1, 1, << >>), Row("I3", 1, 1, <<20>>),
      Row("I4", 5, 1, <<0>>), Row("I5", 5, 1, <<-2>>), Row("I6", 5, 1, <<20>>),
      Row("I7", 0, 1, <<3>>)>>

\* A response holds one row per item, in the catalogue's order.
IndexLists ==
    {s \in UNION {[1..n -> 1..Len(Catalogue)] : n \in 0..MaxRows} :
        \A i \in 1..(Len(s) - 1) : s[i] < s[i + 1]}

RowLists == {[i \in 1..Len(s) |-> Catalogue[s[i]]] : s \in IndexLists}

\* r.message as the server sends it: absent, or a row list
Messages == {<< >>} \cup {<<d>> : d \in RowLists}

\* The responses of the filter specification: absent, empty, one row.
FilterMessages == {<< >>, << << >> >>, << <<Catalogue[1]>> >>}

Message(text) == [kind |-> "message", text |-> text, cards |-> << >>]

CardGrid(cards) == [kind |-> "cards", text |-> "", cards |-> cards]

\* variant: the args object without the item_code field
CallArgsNoItemCode(ctl) ==
    [warehouse |-> ctl.warehouse, item_group |-> ctl.item_group,
     stock_status |-> ctl.stock_status, sort_order |-> ctl.sort_order]

\* the args object of frappe.call
CallArgs(ctl) ==
    [warehouse |-> ctl.warehouse, item_code |-> ctl.item_code,
     item_group |-> ctl.item_group, stock_status |-> ctl.stock_status,
     sort_order |-> ctl.sort_order]

\* r.message || []
MessageOrEmpty(m) == IF m = << >> THEN << >> ELSE m[1]

\* variant: the truthiness test alone, without "> 0"
CountsForAverageTruthy(i) ==
    i.custom_no_of_days # << >> /\ i.custom_no_of_days[1] # 0

\* i.custom_no_of_days && i.custom_no_of_days > 0, in the aggregation loop
CountsForAverage(i) ==
    /\ i.custom_no_of_days # << >>
    /\ i.custom_no_of_days[1] # 0
    /\ i.custom_no_of_days[1] > 0

\* the same test, in the card template
HasDaysRemaining(i) ==
    /\ i.custom_no_of_days # << >>
    /\ i.custom_no_of_days[1] # 0
    /\ i.custom_no_of_days[1] > 0

\* i.actual_qty / i.custom_no_of_days
DaysOf(i) == Frac(i.actual_qty, i.custom_no_of_days[1])

ZeroTally == [critical |-> 0, healthy |-> 0, total_days |-> Frac(0, 1),
              valid_day_items |-> 0, exact |-> TRUE]

\* variant: critical on "<", healthy on ">", a row at its reorder level in neither
TallyRowStrict(i, acc) ==
    LET c == IF i.actual_qty < i.reorder_level THEN acc.critical + 1 ELSE acc.critical
        h == IF i.actual_qty > i.reorder_level THEN acc.healthy + 1 ELSE acc.healthy
    IN  IF CountsForAverage(i)
        THEN [critical |-> c, healthy |-> h,
              total_days |-> FracAdd(acc.total_days, DaysOf(i)),
              valid_day_items |-> acc.valid_day_items + 1,
              exact |-> acc.exact /\ IsPow2(DaysOf(i).den)]
        ELSE [acc EXCEPT !.critical = c, !.healthy = h]

\* one pass of data.forEach
TallyRow(i, acc) ==
    LET crit == i.actual_qty <= i.reorder_level
        c == IF crit THEN acc.critical + 1 ELSE acc.critical
        h == IF crit THEN acc.healthy ELSE acc.healthy + 1
    IN  IF CountsForAverage(i)
        THEN [critical |-> c, healthy |-> h,
              total_days |-> FracAdd(acc.total_days, DaysOf(i)),
              valid_day_items |-> acc.valid_day_items + 1,
              exact |-> acc.exact /\ IsPow2(DaysOf(i).den)]
        ELSE [acc EXCEPT !.critical = c, !.healthy = h]

RECURSIVE Tally(_, _)
Tally(data, acc) ==
    IF data = << >> THEN acc ELSE Tally(Tail(data), TallyRow(Head(data), acc))

\* valid_day_items ? (total_days / valid_day_items).toFixed(1) : 0
AvgDays(s) ==
    IF s.valid_day_items # 0
    THEN toFixed1(FracDivInt(s.total_days, s.valid_day_items), s.exact)
    ELSE {NumberZero}

\* variant: the card's test with "<"
IsCriticalStrict(i) == i.actual_qty < i.reorder_level

\* let isCritical = i.actual_qty <= i.reorder_level
IsCritical(i) == i.actual_qty <= i.reorder_level

\* the card of one row: border class, badge class and text, days value
Card(i) ==
    LET days == IF HasDaysRemaining(i) THEN toFixed1(DaysOf(i), TRUE) ELSE {NumberZero}
    IN  {[class |-> IF IsCritical(i) THEN "critical" ELSE "safe",
          badge |-> IF IsCritical(i) THEN "badge-critical" ELSE "badge-healthy",
          status |-> IF IsCritical(i) THEN "Critical" ELSE "Healthy",
          item_code |-> i.item_code,
          reorder |-> i.reorder_level,
          days |-> d] : d \in days}

RECURSIVE Cards(_)
Cards(data) ==
    IF data = << >> THEN {<< >>}
    ELSE {<<c>> \o rest : c \in Card(Head(data)), rest \in Cards(Tail(data))}

\* render_data(data) with the tiles holding t: the views it can leave
render_data(data, t) ==
    IF Len(data) = 0
    THEN {[tiles |-> t, container |-> Message("No stock found.")]}
    ELSE LET s == Tally(data, ZeroTally)
         IN  {[tiles |-> [total |-> Len(data), critical |-> s.critical,
                          healthy |-> s.healthy, avg |-> a],
               container |-> CardGrid(cs)] : a \in AvgDays(s), cs \in Cards(data)}

\* refresh_data(page), the controls holding ctl
refresh_data(ctl) ==
    /\ issued < MaxCalls
    /\ container' = Message("Loading inventory data...")
    /\ issued' = issued + 1
    /\ inflight' = inflight \cup {[id |-> issued + 1, args |-> CallArgs(ctl)]}
    /\ UNCHANGED <<failed, tiles, handled, lastId, lastData>>

\* a control's value changes and its change handler runs
ChangeFilter(f, v) ==
    /\ v # controls[f]
    /\ controls' = [controls EXCEPT ![f] = v]
    /\ refresh_data([controls EXCEPT ![f] = v])
    /\ UNCHANGED gaugeVars

\* the Refresh primary action
PrimaryAction ==
    /\ refresh_data(controls)
    /\ UNCHANGED controls
    /\ UNCHANGED gaugeVars

\* the callback of frappe.call, on the response to request c
Callback(c, m) ==
    /\ c \in inflight
    /\ \E v \in render_data(MessageOrEmpty(m), tiles) :
          /\ tiles' = v.tiles
          /\ container' = v.container
    /\ inflight' = inflight \ {c}
    /\ handled' = handled + 1
    /\ lastId' = c.id
    /\ lastData' = MessageOrEmpty(m)
    /\ UNCHANGED <<controls, issued, failed>>
    /\ UNCHANGED gaugeVars

\* the remote call fails: the callback never runs
CallFails(c) ==
    /\ c \in inflight
    /\ inflight' = inflight \ {c}
    /\ failed' = failed \cup {c.id}
    /\ UNCHANGED <<controls, issued, container, tiles, handled, lastId, lastData>>
    /\ UNCHANGED gaugeVars

\* the page's markup with its tiles at 0, the gauge untouched
ZeroTiles == [total |-> 0, critical |-> 0, healthy |-> 0, avg |-> NumberZero]

GaugeIdle ==
    /\ fetched = 0
    /\ pending = {}
    /\ rejected = {}
    /\ gauge = << >>
    /\ resolved = 0
    /\ lastFetch = << >>
    /\ lastRecords = << >>

\* on_page_load: the controls at their defaults, the tiles at 0, and the
\* first refresh_data(page) issued
on_page_load ==
    /\ controls = DefaultControls
    /\ issued = 1
    /\ inflight = {[id |-> 1, args |-> CallArgs(DefaultControls)]}
    /\ failed = {}
    /\ container = Message("Loading inventory data...")
    /\ tiles = ZeroTiles
    /\ handled = 0
    /\ lastId = 0
    /\ lastData = << >>

InitDash == on_page_load /\ GaugeIdle

NextDash ==
    \/ \E v \in FilterValues.sort_order : ChangeFilter("sort_order", v)
    \/ PrimaryAction
    \/ \E c \in inflight : \E m \in Messages : Callback(c, m)
    \/ \E c \in inflight : CallFails(c)

SpecDash == InitDash /\ [][NextDash]_vars

NextFilters ==
    \/ \E f \in FilterFields : \E v \in FilterValues[f] : ChangeFilter(f, v)
    \/ PrimaryAction
    \/ \E c \in inflight : \E m \in FilterMessages : Callback(c, m)
    \/ \E c \in inflight : CallFails(c)

SpecFilters == InitDash /\ [][NextFilters]_vars

\* the dashboard page not loaded
DashIdle ==
    /\ controls = DefaultControls
    /\ issued = 0
    /\ inflight = {}
    /\ failed = {}
    /\ container = Message("")
    /\ tiles = ZeroTiles
    /\ handled = 0
    /\ lastId = 0
    /\ lastData = << >>

\* ============================================================ tank gauge

DeviceId == "MCOMWIFI051"

\* maxCapacity = 5000
DefaultCapacity == 5000

\* if (fillPercent > 100) fillPercent = 100
FullPercent == 100

\* fillPercent < 10 ? '#f44336' : '#2196F3'
WarnBelow == 10

WarningColor == "#f44336"

NormalColor == "#2196F3"

\* weights a Tanker Weight Log can hold (a faulty sensor reports below 0)
Weights == {-50, 0, 2, 499, 500, 5000, 6000}

\* capacities updateTankGraphic is given in SpecFill
Capacities == {1, 3, DefaultCapacity}

\* what get_list resolves with under limit: 1: no record, or the latest one
RecordLists == {<< >>} \cup {<<[weight |-> w]>> : w \in Weights}

\* variant: the percent without the limit
FillPercentUnclamped(weight, maxCapacity) ==
    FracMulInt(Frac(weight, maxCapacity), 100)

\* (weight / maxCapacity) * 100, limited to 100
FillPercent(weight, maxCapacity) ==
    LET fillPercent == FracMulInt(Frac(weight, maxCapacity), 100)
    IN  IF FracGreater(fillPercent, FullPercent) THEN Frac(FullPercent, 1)
        ELSE fillPercent

\* variant: the warning color up to and including 10
FillColorInclusive(fillPercent) ==
    IF ~FracGreater(fillPercent, WarnBelow) THEN WarningColor ELSE NormalColor

\* let color = fillPercent < 10 ? '#f44336' : '#2196F3'
FillColor(fillPercent) ==
    IF FracLess(fillPercent, WarnBelow) THEN WarningColor ELSE NormalColor

\* the four display properties one update writes
Display(weight, deviceId, maxCapacity) ==
    [height |-> [percent |-> FillPercent(weight, maxCapacity), unit |-> "%"],
     weightText |-> [number |-> weight, unit |-> " kg"],
     deviceLabel |-> [prefix |-> "Device: ", device |-> deviceId],
     color |-> FillColor(FillPercent(weight, maxCapacity))]

\* variant: an empty record list resets the gauge to a reading of 0
OnRecordsResetting(records, f, g) ==
    IF Len(records) > 0
    THEN <<Display(records[1].weight, f.deviceId, f.maxCapacity)>>
    ELSE <<Display(0, f.deviceId, f.maxCapacity)>>

\* variant: only the first reading is ever written
OnRecordsFirstOnly(records, f, g) ==
    IF Len(records) > 0 /\ g = << >>
    THEN <<Display(records[1].weight, f.deviceId, f.maxCapacity)>>
    ELSE g

\* the .then callback of fetch f on the gauge g
OnRecords(records, f, g) ==
    IF Len(records) > 0
    THEN <<Display(records[1].weight, f.deviceId, f.maxCapacity)>>
    ELSE g

\* updateTankGraphic(deviceId, maxCapacity): one get_list fetch is issued
updateTankGraphic(deviceId, maxCapacity, limit) ==
    /\ fetched < limit
    /\ fetched' = fetched + 1
    /\ pending' = pending \cup
          {[id |-> fetched + 1, deviceId |-> deviceId, maxCapacity |-> maxCapacity]}
    /\ UNCHANGED <<rejected, gauge, resolved, lastFetch, lastRecords>>
    /\ UNCHANGED dashVars

\* the setInterval callback, every 30 seconds
TimerTick == updateTankGraphic(DeviceId, DefaultCapacity, MaxFetches)

\* a call with a capacity of the caller's choice
CallWithCapacity(c) == updateTankGraphic(DeviceId, c, MaxFills)

\* the promise of fetch f resolves with records
Resolve(f, records) ==
    /\ f \in pending
    /\ pending' = pending \ {f}
    /\ gauge' = OnRecords(records, f, gauge)
    /\ resolved' = resolved + 1
    /\ lastFetch' = <<f>>
    /\ lastRecords' = records
    /\ UNCHANGED <<fetched, rejected>>
    /\ UNCHANGED dashVars

\* the promise of fetch f is rejected: no handler runs
Reject(f) ==
    /\ f \in pending
    /\ pending' = pending \ {f}
    /\ rejected' = rejected \cup {f.id}
    /\ UNCHANGED <<fetched, gauge, resolved, lastFetch, lastRecords>>
    /\ UNCHANGED dashVars

\* the script has run: the timer is set and the initial call is in flight
ScriptLoaded(maxCapacity) ==
    /\ fetched = 1
    /\ pending = {[id |-> 1, deviceId |-> DeviceId, maxCapacity |-> maxCapacity]}
    /\ rejected = {}
    /\ gauge = << >>
    /\ resolved = 0
    /\ lastFetch = << >>
    /\ lastRecords = << >>

InitGauge == DashIdle /\ ScriptLoaded(DefaultCapacity)

NextGauge ==
    \/ TimerTick
    \/ \E f \in pending : \E records \in RecordLists : Resolve(f, records)
    \/ \E f \in pending : Reject(f)

SpecGauge == InitGauge /\ [][NextGauge]_vars

InitFill == DashIdle /\ \E c \in Capacities : ScriptLoaded(c)

NextFill ==
    \/ \E c \in Capacities : CallWithCapacity(c)
    \/ \E f \in pending : \E records \in RecordLists : Resolve(f, records)
    \/ \E f \in pending : Reject(f)

SpecFill == InitFill /\ [][NextFill]_vars

\* ================================================================ claims

\* the rows of data that enter the average: custom_no_of_days present and > 0
Qualifying(data) ==
    {i \in 1..Len(data) :
        /\ data[i].custom_no_of_days # << >>
        /\ data[i].custom_no_of_days[1] > 0}

RECURSIVE ProdDays(_, _)
ProdDays(data, Q) ==
    IF Q = {} THEN 1
    ELSE LET i == CHOOSE j \in Q : TRUE
         IN  data[i].custom_no_of_days[1] * ProdDays(data, Q \ {i})

RECURSIVE SumScaled(_, _, _)
SumScaled(data, Q, D) ==
    IF Q = {} THEN 0
    ELSE LET i == CHOOSE j \in Q : TRUE
         IN  data[i].actual_qty * (D \div data[i].custom_no_of_days[1])
                + SumScaled(data, Q \ {i}, D)

\* avg is the mean of actual_qty / custom_no_of_days over the qualifying rows
\* of data, to one decimal place (the nearest tenth, the sign kept), and the
\* number 0 when no row qualifies.  The mean is N / (D * |Q|).
AvgMatches(avg, data) ==
    LET Q == Qualifying(data)
        D == ProdDays(data, Q)
        N == SumScaled(data, Q, D)
        M == D * Cardinality(Q)
    IN  IF Q = {} THEN avg = NumberZero
        ELSE /\ avg.kind = "fixed"
             /\ avg.neg = (N < 0)
             /\ 2 * Abs(10 * Abs(N) - avg.tenths * M) <= M

CriticalRows(data) == {i \in 1..Len(data) : data[i].actual_qty <= data[i].reorder_level}

HealthyRows(data) == {i \in 1..Len(data) : data[i].actual_qty > data[i].reorder_level}

\* the four tiles hold the aggregates of data
TilesMatch(t, data) ==
    /\ t.total = Len(data)
    /\ t.critical = Cardinality(CriticalRows(data))
    /\ t.healthy = Cardinality(HealthyRows(data))
    /\ AvgMatches(t.avg, data)

\* C1: once render_data has handled a response, the four tiles equal the
\* aggregates of the row list handled last; when that list is empty the
\* tiles show zero and the container, until the next refresh replaces it by
\* the loading placeholder, shows the empty-state message.
C1_TilesFollowLastResponse ==
    handled > 0 =>
        IF lastData = << >>
        THEN /\ tiles = ZeroTiles
             /\ container \in {Message("No stock found."),
                               Message("Loading inventory data...")}
        ELSE TilesMatch(tiles, lastData)

\* C2: every refresh_data issues exactly one remote call, whose arguments are
\* exactly the five filter fields, each with the value its control holds at
\* the trigger (an unset control as its empty value, never dropped).
C2_RefreshSendsFiveFilters ==
    [][(issued' # issued \/ controls' # controls) =>
          /\ issued' = issued + 1
          /\ inflight \subseteq inflight'
          /\ Cardinality(inflight' \ inflight) = 1
          /\ \A c \in inflight' \ inflight :
                /\ c.id = issued'
                /\ DOMAIN c.args = FilterFields
                /\ \A f \in FilterFields : c.args[f] = controls'[f]]_vars

C2_Witness ==
    \E c \in inflight :
        /\ c.id > 1
        /\ c.args.item_code = "MILK"
        /\ c.args.warehouse = ""
        /\ controls.item_code = "MILK"

\* C3: in every state, critical-items + healthy-items = total-items.
C3_TilesAddUp == tiles.critical + tiles.healthy = tiles.total

C3_Witness ==
    /\ handled > 1
    /\ lastData = << >>
    /\ tiles.total = 2
    /\ tiles.critical = 1
    /\ tiles.healthy = 1

\* C4: a row is Critical exactly when actual_qty <= reorder_level (equality
\* included) and Healthy otherwise, in the counters and, identically, in the
\* row's card border and status badge.
C4_ClassificationInclusive ==
    /\ (handled > 0 /\ lastData # << >>) =>
          /\ tiles.critical = Cardinality(CriticalRows(lastData))
          /\ tiles.healthy = Cardinality(HealthyRows(lastData))
    /\ container.kind = "cards" =>
          /\ Len(container.cards) = Len(lastData)
          /\ \A i \in 1..Len(lastData) :
                IF lastData[i].actual_qty <= lastData[i].reorder_level
                THEN /\ container.cards[i].class = "critical"
                     /\ container.cards[i].badge = "badge-critical"
                     /\ container.cards[i].status = "Critical"
                ELSE /\ container.cards[i].class = "safe"
                     /\ container.cards[i].badge = "badge-healthy"
                     /\ container.cards[i].status = "Healthy"

C4_Witness ==
    /\ container.kind = "cards"
    /\ \E i \in 1..Len(lastData) :
          /\ lastData[i].actual_qty = lastData[i].reorder_level
          /\ container.cards[i].status = "Critical"
    /\ tiles.critical = 1
    /\ tiles.healthy = 1

\* C5: for a non-empty row list, rows whose custom_no_of_days is absent, zero
\* or negative enter neither the sum nor the divisor of the average and show
\* a days value of 0 on their card; the avg-days tile is the mean of
\* actual_qty / custom_no_of_days over the rows with custom_no_of_days > 0
\* (to one decimal place), and 0 when no row qualifies.
C5_AverageDaysExclusion ==
    /\ (handled > 0 /\ lastData # << >>) => AvgMatches(tiles.avg, lastData)
    /\ container.kind = "cards" =>
          \A i \in 1..Len(lastData) :
              i \notin Qualifying(lastData) => container.cards[i].days = NumberZero

C5_Witness ==
    /\ container.kind = "cards"
    /\ Len(lastData) = 2
    /\ lastData[1].custom_no_of_days = <<-2>>
    /\ lastData[2].custom_no_of_days = <<20>>
    /\ tiles.avg = [kind |-> "fixed", neg |-> FALSE, tenths |-> 3]
    /\ container.cards[1].days = NumberZero

\* the view render_data leaves for data, the tiles recomputed from it
ViewOf(data) ==
    IF data = << >>
    THEN container = Message("No stock found.") /\ tiles = ZeroTiles
    ELSE /\ container.kind = "cards"
         /\ container.cards \in Cards(data)
         /\ TilesMatch(tiles, data)

\* C8: refreshes overlap and responses arrive in any order; after all
\* responses have arrived, the card container and the summary tiles are those
\* produced from the response that arrived last.
C8_LastArrivalWins ==
    (inflight = {} /\ failed = {} /\ handled = issued) => ViewOf(lastData)

\* the percent h is (w / cap) * 100 limited to 100
IsFillOf(h, w, cap) ==
    IF w > cap THEN h.num = 100 /\ h.den = 1
    ELSE h.num * cap = 100 * w * h.den

\* C6: for a reading with weight >= 0 and a maxCapacity > 0, the fill percent
\* written as the gauge height is in [0, 100], and exactly 100 when the
\* weight is above maxCapacity.
C6_FillPercentClamped ==
    (lastRecords # << >> /\ lastRecords[1].weight >= 0) =>
        /\ gauge # << >>
        /\ gauge[1].weightText.number = lastRecords[1].weight
        /\ gauge[1].height.percent.num >= 0
        /\ gauge[1].height.percent.num <= 100 * gauge[1].height.percent.den
        /\ lastRecords[1].weight > lastFetch[1].maxCapacity =>
              gauge[1].height.percent = [num |-> 100, den |-> 1]

C6_Witness ==
    /\ lastRecords # << >>
    /\ gauge # << >>
    /\ lastRecords[1].weight = 2
    /\ lastFetch[1].maxCapacity = 1
    /\ gauge[1].height.percent = [num |-> 100, den |-> 1]

C9_LastResolvedWins ==
    (pending = {} /\ rejected = {} /\ resolved = fetched /\ lastRecords # << >>) =>
        /\ gauge # << >>
        /\ gauge[1].weightText = [number |-> lastRecords[1].weight, unit |-> " kg"]
        /\ gauge[1].deviceLabel = [prefix |-> "Device: ", device |-> lastFetch[1].deviceId]
        /\ gauge[1].height.unit = "%"
        /\ IsFillOf(gauge[1].height.percent, lastRecords[1].weight, lastFetch[1].maxCapacity)
        /\ gauge[1].color =
              IF lastRecords[1].weight * 100 < 10 * lastFetch[1].maxCapacity
              THEN "#f44336" ELSE "#2196F3"

C9_Witness ==
    /\ pending = {}
    /\ rejected = {}
    /\ resolved = fetched
    /\ resolved > 1
    /\ lastRecords # << >>
    /\ lastFetch[1].id < fetched
    /\ gauge[1].weightText.number = lastRecords[1].weight

\* C10: a fetch that resolves with an empty record list changes none of the
\* four gauge display properties.
C10_EmptyFetchKeepsGauge ==
    [][(resolved' = resolved + 1 /\ lastRecords' = << >>) => gauge' = gauge]_vars

C10_Witness ==
    /\ resolved > 1
    /\ lastRecords = << >>
    /\ gauge # << >>

====
